---- MODULE Spec2Model ----
(***************************************************************************)
(* State-machine model of the content-management server in src/server.js:  *)
(* the durable (MongoDB) collections, the in-process fallback lists, the   *)
(* request handlers that read and write them, and the pure status and      *)
(* ordering functions.                                                     *)
(*                                                                         *)
(* Conventions                                                             *)
(*  - every handler is one action; a durable call that rejects (network    *)
(*    error, CastError on an id that is no ObjectId) is the input `fail`   *)
(*    or follows from the kind of the id, and sends the handler into its   *)
(*    catch (dbError) block exactly as in the source;                      *)
(*  - the admin handlers are modelled for an authenticated session         *)
(*    (requireAuth calls next());                                          *)
(*  - resp is the response to the last request, so a state with            *)
(*    resp.route = r is the state right after the handler of r has run;    *)
(*  - ids are tagged: <<"seed", n>> the literal ids of the initial         *)
(*    fallback list, <<"t", ms>> a Date.now() reading, <<"oid", n>> an     *)
(*    ObjectId generated by the durable store;                             *)
(*  - message dates are only compared, and are written YYYYMMDD; event     *)
(*    and announcement times are milliseconds since 2024-01-01T00:00Z.     *)
(***************************************************************************)
EXTENDS Integers, Sequences, FiniteSets, TLC

VARIABLES
    connected,          \* mongoose.connection.readyState === 1
    now,                \* the wall clock, ms since 2024-01-01T00:00:00Z
    tz,                 \* the server's local-time offset from UTC, ms
    nextOid,            \* ObjectIds handed out by the durable store so far
    dbMessages,         \* collection Message, in insertion order
    tempMessages,       \* the fallback list tempMessages
    dbEvents,           \* collection Event, in insertion order
    dbAnnouncements,    \* collection Announcement, in insertion order
    tempAnnouncements,  \* the fallback list tempAnnouncements
    featReq,            \* requests waiting for a durable call, by slot
    handled,            \* number of writing requests handled so far
    resp                \* the response to the last request

vars == <<connected, now, tz, nextOid, dbMessages, tempMessages, dbEvents,
          dbAnnouncements, tempAnnouncements, featReq, handled, resp>>

----------------------------------------------------------------------------
(* Bounds of the exploration *)

MaxRequests == 2
MaxEventRequests == 2
MaxAnnouncementRequests == 4
MaxClock == 1

(* Program constants *)

HomeLimit == 3
DayMs == 86400000

(* 2024-01-09T00:00:00Z, the clock reading when the process starts *)
StartMs == 8 * DayMs

MessageDates == {"2023-09-01", "2023-11-01"}

(* the time value of a Date made from a string that is no date *)
InvalidDate == -1

(* new Date(date) of the date field of a message form, as yyyymmdd *)
NewDate(date) ==
    CASE date = "2023-09-01" -> 20230901
      [] date = "2023-11-01" -> 20231101
      [] OTHER -> InvalidDate

HourMs == DayMs \div 24

(* 2024-01-dd hh:mm:ss as milliseconds since 2024-01-01T00:00:00 *)
Jan(dd, hh, mm, ss) == (dd - 1) * DayMs + hh * HourMs + mm * 60000 + ss * 1000

(* the local-time offsets a server may run under: UTC-5, UTC, UTC+5:30 *)
TzOffsets == {0 - 5 * HourMs, 0, 5 * HourMs + 30 * 60000}

(* the date fields of the event form, "YYYY-MM-DD": new Date(date) is
   midnight UTC of that day *)
EventDates == {Jan(10, 0, 0, 0)}

(* an optional value is the empty sequence or a one-element sequence *)
None == <<>>

Some(x) == <<x>>

EndDates == {None, Some(Jan(9, 0, 0, 0)), Some(Jan(11, 0, 0, 0))}

(* the instant the expiresAt field of the announcement forms names *)
ExpiryMs == Jan(10, 0, 0, 0)

(* the announcement forms sent: featured is the checkbox, priority the
   field as parseInt reads it (None: empty or no number), expiresAt the
   optional date *)
AnnouncementForms ==
    { [featured |-> FALSE, priority |-> None, expiresAt |-> None],
      [featured |-> TRUE, priority |-> None, expiresAt |-> Some(ExpiryMs)],
      [featured |-> FALSE, priority |-> Some(5), expiresAt |-> None] }

Slots == {1, 2}

----------------------------------------------------------------------------
(* Sequences *)

Min(a, b) == IF a <= b THEN a ELSE b

Range(s) == {s[i] : i \in 1..Len(s)}

Take(s, n) == SubSeq(s, 1, Min(n, Len(s)))

InsertAt(s, k, x) == SubSeq(s, 1, k - 1) \o <<x>> \o SubSeq(s, k, Len(s))

(* Array.prototype.sort with a comparator, given as a function on the
   pairs of elements: stable; x is placed before the first element it
   compares less than *)
SortBy(s, cmp) ==
    LET Insert(sorted, x) ==
            LET later == {j \in 1..Len(sorted) : cmp[x, sorted[j]] < 0}
            IN  IF later = {} THEN Append(sorted, x)
                ELSE InsertAt(sorted, CHOOSE j \in later : \A k \in later : j <= k, x)
        f[i \in 0..Len(s)] == IF i = 0 THEN <<>> ELSE Insert(f[i - 1], s[i])
    IN  f[Len(s)]

(* Array.prototype.findIndex on the _id; 0 stands for -1 *)
findIndex(list, id) ==
    LET hits == {i \in 1..Len(list) : list[i]._id = id}
    IN  IF hits = {} THEN 0 ELSE CHOOSE i \in hits : \A j \in hits : i <= j

Has(list, id) == findIndex(list, id) # 0

(* Array.prototype.filter(x => x._id !== id) *)
filterOut(list, id) == SelectSeq(list, LAMBDA m : m._id # id)

(* A query by _id rejects with a CastError unless the id is an ObjectId *)
IsObjectId(id) == id[1] = "oid"

DbThrows(id, fail) == fail \/ ~IsObjectId(id)

----------------------------------------------------------------------------
(* Responses *)

NoList == <<>>

NoId == <<"none", 0>>

NoRequest == [route |-> "none", status |-> 0, id |-> NoId]

(* route and status are what the client sees; messages, events and
   announcements are the lists given to the view or sent as JSON, and
   usingMongoDB the flag given to the view (FALSE where the response has
   none); at is the clock reading of a response that depends on the time;
   id is the :id parameter, or the _id a create assigned; follows is the
   request answered just before this one; form is what the request's body
   held and message the message given to the view: each is kept only for
   the routes whose outcome depends on it *)
Response(route, status, usingMongoDB, at, messages, events, announcements) ==
    [route |-> route, status |-> status, usingMongoDB |-> usingMongoDB,
     at |-> at, id |-> NoId, follows |-> NoRequest, form |-> None, message |-> None,
     messages |-> messages, events |-> events, announcements |-> announcements]

Plain(route, status) ==
    Response(route, status, FALSE, 0, NoList, NoList, NoList)

Summary(r) == [route |-> r.route, status |-> r.status, id |-> r.id]

----------------------------------------------------------------------------
(* Messages: storage *)

(* a stored message: text is the key of its title, code, author and
   description (TextOf), pdfFile the stored PDF (None: no data), filePath
   the legacy path *)
MessageOf(id, date, text, pdfFile, filePath, featured) ==
    [_id |-> id, date |-> date, text |-> text, pdfFile |-> pdfFile,
     filePath |-> filePath, featured |-> featured]

(* a message without attachment *)
Message(id, date, featured) == MessageOf(id, date, "grace", None, "", featured)

(* the title, code, author and description a text key stands for, as
   sequences of characters *)
TextOf(key) ==
    CASE key = "seed1" ->
         [title |-> << "T", "h", "e", " ", "P", "o", "w", "e", "r", " ", "o", "f", " ",
                   "F", "a", "i", "t", "h" >>,
          code |-> << "P", "F" >>,
          author |-> << "P", "a", "s", "t", "o", "r", " ", "J", "o", "h", "n" >>,
          description |->
              << "E", "x", "p", "l", "o", "r", "i", "n", "g", " ", "h", "o", "w",
                 " ", "f", "a", "i", "t", "h", " ", "c", "a", "n", " ", "m", "o",
                 "v", "e", " ", "m", "o", "u", "n", "t", "a", "i", "n", "s", " ",
                 "i", "n", " ", "o", "u", "r", " ", "d", "a", "i", "l", "y", " ",
                 "l", "i", "v", "e", "s", " ", "a", "n", "d", " ", "s", "t", "r",
                 "e", "n", "g", "t", "h", "e", "n", " ", "o", "u", "r", " ", "r",
                 "e", "l", "a", "t", "i", "o", "n", "s", "h", "i", "p", " ", "w",
                 "i", "t", "h", " ", "G", "o", "d", "." >>]
    [] key = "seed2" ->
         [title |-> << "D", "i", "v", "i", "n", "e", " ", "M", "e", "r", "c", "y" >>,
          code |-> << "M", "D" >>,
          author |-> << "P", "a", "s", "t", "o", "r", " ", "M", "a", "r", "k" >>,
          description |->
              << "U", "n", "d", "e", "r", "s", "t", "a", "n", "d", "i", "n", "g",
                 " ", "G", "o", "d", "'", "s", " ", "i", "n", "f", "i", "n", "i",
                 "t", "e", " ", "m", "e", "r", "c", "y", " ", "a", "n", "d", " ",
                 "h", "o", "w", " ", "i", "t", " ", "t", "r", "a", "n", "s", "f",
                 "o", "r", "m", "s", " ", "o", "u", "r", " ", "l", "i", "v", "e",
                 "s", " ", "w", "h", "e", "n", " ", "w", "e", " ", "a", "c", "c",
                 "e", "p", "t", " ", "i", "t", "." >>]
    [] key = "seed3" ->
         [title |-> << "J", "o", "y", " ", "i", "n", " ", "G", "i", "v", "i", "n", "g" >>,
          code |-> << "J", "P", "E", "G" >>,
          author |-> << "P", "a", "s", "t", "o", "r", " ", "S", "a", "r", "a", "h" >>,
          description |->
              << "D", "i", "s", "c", "o", "v", "e", "r", "i", "n", "g", " ", "t",
                 "h", "e", " ", "j", "o", "y", " ", "a", "n", "d", " ", "b", "l",
                 "e", "s", "s", "i", "n", "g", "s", " ", "t", "h", "a", "t", " ",
                 "c", "o", "m", "e", " ", "f", "r", "o", "m", " ", "a", " ", "g",
                 "e", "n", "e", "r", "o", "u", "s", " ", "h", "e", "a", "r", "t",
                 " ", "a", "n", "d", " ", "g", "i", "v", "i", "n", "g", " ", "s",
                 "p", "i", "r", "i", "t", "." >>]
    [] key = "seed4" ->
         [title |-> << "H", "o", "p", "e", " ", "i", "n", " ", "T", "r", "i", "a", "l",
                   "s" >>,
          code |-> << "H", "T" >>,
          author |-> << "P", "a", "s", "t", "o", "r", " ", "J", "a", "m", "e", "s" >>,
          description |->
              << "F", "i", "n", "d", "i", "n", "g", " ", "h", "o", "p", "e", " ",
                 "a", "n", "d", " ", "s", "t", "r", "e", "n", "g", "t", "h", " ",
                 "i", "n", " ", "G", "o", "d", " ", "d", "u", "r", "i", "n", "g",
                 " ", "d", "i", "f", "f", "i", "c", "u", "l", "t", " ", "t", "i",
                 "m", "e", "s", " ", "a", "n", "d", " ", "t", "r", "i", "a", "l",
                 "s", "." >>]
    [] key = "grace" ->
         [title |-> << "G", "r", "a", "c", "e", " ", "A", "l", "o", "n", "e" >>,
          code |-> << "G", "A" >>,
          author |-> << "P", "a", "s", "t", "o", "r", " ", "A", "n", "n" >>,
          description |->
              << "S", "a", "v", "e", "d", " ", "b", "y", " ", "g", "r", "a", "c",
                 "e" >>]
    [] key = "faith" ->
         [title |-> << "F", "A", "I", "T", "H", " ", "W", "O", "R", "K", "S" >>,
          code |-> << "F", "W" >>,
          author |-> << "p", "a", "s", "t", "o", "r", " ", "j", "o", "h", "n" >>,
          description |->
              << "f", "a", "i", "t", "h", " ", "w", "i", "t", "h", "o", "u", "t",
                 " ", "w", "o", "r", "k", "s" >>]

(* the text keys and the files a form may hold *)
TextInputs == {"grace", "faith"}

Files == {"a.pdf", "b.pdf"}

(* the messages collection as an earlier run of the server left it: two
   documents, the older one featured and with a stored PDF *)
PersistedMessages ==
    << MessageOf(<<"oid", 1>>, 20231008, "grace", Some("a.pdf"), "/pdf/upload", TRUE),
       Message(<<"oid", 2>>, 20231015, FALSE) >>

(* let tempMessages = [ ... ] *)
SeedMessages ==
    << MessageOf(<<"seed", 1>>, 20231015, "seed1", None, "/pdf/1", TRUE),
       MessageOf(<<"seed", 2>>, 20231008, "seed2", None, "/pdf/2", FALSE),
       MessageOf(<<"seed", 3>>, 20231001, "seed3", None, "/pdf/3", FALSE),
       MessageOf(<<"seed", 4>>, 20230924, "seed4", None, "", FALSE) >>

(* the ids a request may name: stored ones and one that no store holds *)
MessageIds ==
    {m._id : m \in Range(dbMessages) \cup Range(tempMessages)} \cup {<<"oid", 0>>}

(* an updateMany that matches no document *)
updateManyNothing(coll) == coll

(* Message.updateMany({}, { featured: false }) *)
updateManyUnfeature(coll) ==
    [i \in 1..Len(coll) |-> [coll[i] EXCEPT !.featured = FALSE]]

(* a forEach over no element *)
forEachNothing(list) == list

(* tempMessages.forEach(msg => msg.featured = false) *)
forEachUnfeature(list) ==
    [i \in 1..Len(list) |-> [list[i] EXCEPT !.featured = FALSE]]

(* Message.findByIdAndUpdate(id, { featured: v }): the collection after the
   call; the result is null exactly when findIndex is 0 *)
setFeaturedById(coll, id, v) ==
    LET k == findIndex(coll, id)
    IN  IF k = 0 THEN coll ELSE [coll EXCEPT ![k].featured = v]

(* Message.findById(id) / tempMessages.find(msg => msg._id === id): the
   first match, None for null / undefined *)
find(list, id) ==
    LET k == findIndex(list, id)
    IN  IF k = 0 THEN None ELSE Some(list[k])

(* an update that inserts the patch when no message has the id *)
mergeOrInsert(coll, id, patch) ==
    LET k == findIndex(coll, id)
    IN  IF k = 0
        THEN Append(coll, MessageOf(id, patch.date, patch.text, patch.pdfFile,
                                    patch.filePath, FALSE))
        ELSE [coll EXCEPT ![k].date = patch.date, ![k].text = patch.text,
                          ![k].pdfFile = patch.pdfFile, ![k].filePath = patch.filePath]

(* Message.findByIdAndUpdate(id, updatedMessage) and the merge
   { ...tempMessages[i], ...updatedMessage }: _id and featured are not in
   the patch *)
mergeById(coll, id, patch) ==
    LET k == findIndex(coll, id)
    IN  IF k = 0 THEN coll
        ELSE [coll EXCEPT ![k].date = patch.date, ![k].text = patch.text,
                          ![k].pdfFile = patch.pdfFile, ![k].filePath = patch.filePath]

(* an update that takes the uploaded file even when removeFile is set *)
attachmentFileFirst(removeFile, file, existing) ==
    IF file # None THEN [pdfFile |-> file, filePath |-> "/pdf/:id"]
    ELSE IF removeFile THEN [pdfFile |-> None, filePath |-> ""]
    ELSE IF existing = None THEN [pdfFile |-> None, filePath |-> ""]
    ELSE [pdfFile |-> existing[1].pdfFile, filePath |-> existing[1].filePath]

(* "Handle file updates" of POST /update/:id: pdfFile and filePath of the
   patch; existing is the re-read message; "/pdf/:id" is `/pdf/${messageId}` *)
attachment(removeFile, file, existing) ==
    IF removeFile THEN [pdfFile |-> None, filePath |-> ""]
    ELSE IF file # None THEN [pdfFile |-> file, filePath |-> "/pdf/:id"]
    ELSE IF existing = None THEN [pdfFile |-> None, filePath |-> ""]
    ELSE [pdfFile |-> existing[1].pdfFile, filePath |-> existing[1].filePath]

(* the catch (dbError) block of POST /featured/:id *)
FeaturedFallback(list, id) ==
    LET cleared == forEachUnfeature(list)
        k == findIndex(cleared, id)
    IN  IF k # 0
        THEN [list |-> [cleared EXCEPT ![k].featured = TRUE], status |-> 302]
        ELSE [list |-> cleared, status |-> 404]

----------------------------------------------------------------------------
(* Messages: ordering *)

(* .sort({ date: -1 }) *)
MongoByDateDesc(a, b) == b.date - a.date

(* .sort({ featured: -1, date: -1 }) *)
MongoByFeaturedDate(a, b) ==
    IF a.featured # b.featured
    THEN (IF a.featured THEN -1 ELSE 1)
    ELSE b.date - a.date

(* a comparator that looks at the date alone *)
compareDate(a, b) == b.date - a.date

(* the comparator of GET /messages on the fallback list *)
compareFeaturedDate(a, b) ==
    IF a.featured /\ ~b.featured THEN -1
    ELSE IF ~a.featured /\ b.featured THEN 1
    ELSE b.date - a.date

(* Message.find().sort({ date: -1 }).limit(3) *)
HomeMessagesDb == Take(SortBy(dbMessages, [a \in Range(dbMessages), b \in Range(dbMessages) |-> MongoByDateDesc(a, b)]), HomeLimit)

(* tempMessages.slice(0, 3) *)
HomeMessagesTemp == Take(tempMessages, HomeLimit)

(* Message.find().sort({ featured: -1, date: -1 }) *)
AllMessagesDb == SortBy(dbMessages, [a \in Range(dbMessages), b \in Range(dbMessages) |-> MongoByFeaturedDate(a, b)])

(* [...tempMessages].sort(comparator) *)
AllMessagesTemp == SortBy(tempMessages, [a \in Range(tempMessages), b \in Range(tempMessages) |-> compareFeaturedDate(a, b)])

(* the letters String.prototype.toLowerCase changes, and what it makes
   of them *)
UpperCase == << "A", "B", "C", "D", "E", "F", "G", "H", "I", "J", "K", "L", "M", "N", "O", "P", "Q", "R", "S", "T", "U", "V", "W", "X", "Y", "Z" >>

LowerCase == << "a", "b", "c", "d", "e", "f", "g", "h", "i", "j", "k", "l", "m", "n", "o", "p", "q", "r", "s", "t", "u", "v", "w", "x", "y", "z" >>

LowerOf ==
    [c \in Range(UpperCase) |-> LowerCase[CHOOSE k \in 1..Len(UpperCase) : UpperCase[k] = c]]

(* a toLowerCase that leaves every character as it is *)
keepCase(s) == s

(* String.prototype.toLowerCase *)
toLowerCase(s) ==
    [i \in 1..Len(s) |-> IF s[i] \in DOMAIN LowerOf THEN LowerOf[s[i]] ELSE s[i]]

(* String.prototype.trim *)
trim(s) ==
    LET kept == {i \in 1..Len(s) : s[i] # " "}
    IN  IF kept = {} THEN <<>>
        ELSE SubSeq(s, CHOOSE i \in kept : \A j \in kept : i <= j,
                       CHOOSE i \in kept : \A j \in kept : i >= j)

(* String.prototype.includes *)
includes(text, term) ==
    \E i \in 0..(Len(text) - Len(term)) : SubSeq(text, i + 1, i + Len(term)) = term

(* { $regex: term, $options: 'i' } on a text: the term is a pattern in
   which "." stands for any character and a letter for itself in
   either case *)
regexTest(term, text) ==
    \E i \in 0..(Len(text) - Len(term)) :
       \A k \in 1..Len(term) :
          \/ term[k] = "."
          \/ toLowerCase(<<term[k]>>) = toLowerCase(<<text[i + k]>>)

SearchFields == {"title", "description", "author", "code"}

(* the filter of the fallback search *)
SearchTemp(list, searchTerm) ==
    LET Test(message) ==
            \E f \in SearchFields :
               includes(toLowerCase(TextOf(message.text)[f]), toLowerCase(searchTerm))
    IN  SelectSeq(list, Test)

(* Message.find({ $or: [...] }).sort({ date: -1 }) *)
SearchDb(coll, searchTerm) ==
    LET Test(message) ==
            \E f \in SearchFields : regexTest(searchTerm, TextOf(message.text)[f])
        found == SelectSeq(coll, Test)
    IN  SortBy(found, [a \in Range(found), b \in Range(found) |-> MongoByDateDesc(a, b)])

----------------------------------------------------------------------------
(* Messages: handlers *)

Idle == [pc |-> "idle", id |-> NoId]

Budget == handled < MaxRequests

BudgetEvt == handled < MaxEventRequests

BudgetAnn == handled < MaxAnnouncementRequests

Count == handled' = handled + 1

OtherStores == <<dbEvents, dbAnnouncements, tempAnnouncements>>

Env == <<connected, now, tz>>

(* a field check that does not look at the code *)
RequiredWithoutCode == {"title", "date", "author", "description"}

RequiredMessageFields == {"title", "code", "date", "author", "description"}

(* what is kept of a request for the response that follows it *)
Request(r) == [route |-> r.route, status |-> r.status, id |-> r.id, form |-> r.form]

(* POST /upload: fields are the fields of the body that are not empty,
   file is req.file; "/pdf/upload" is `/pdf/${Date.now()}-${originalname}` *)
Upload(fields, date, text, file, fail) ==
    /\ Budget /\ Count
    /\ featReq' = featReq
    /\ UNCHANGED <<Env, OtherStores>>
    /\ LET form == Some([fields |-> fields, date |-> date, text |-> text, file |-> file])
       IN  IF ~(RequiredMessageFields \subseteq fields)
           THEN /\ resp' = [Plain("/upload", 400) EXCEPT !.form = form]
                /\ UNCHANGED <<nextOid, dbMessages, tempMessages>>
           ELSE IF connected /\ ~fail /\ NewDate(date) # InvalidDate
           THEN /\ dbMessages' =
                     Append(dbMessages,
                            MessageOf(<<"oid", nextOid + 1>>, NewDate(date), text, file,
                                      IF file # None THEN "/pdf/upload" ELSE "", FALSE))
                /\ nextOid' = nextOid + 1
                /\ resp' = [Plain("/upload", 302) EXCEPT !.id = <<"oid", nextOid + 1>>,
                                                         !.form = form]
                /\ UNCHANGED tempMessages
           ELSE /\ tempMessages' =
                     <<MessageOf(<<"t", now>>, NewDate(date), text, file, "", FALSE)>> \o tempMessages
                /\ resp' = [Plain("/upload", 302) EXCEPT !.id = <<"t", now>>, !.form = form]
                /\ UNCHANGED <<nextOid, dbMessages>>

(* POST /update/:id: failRead is the findById of "Keep existing file"
   rejecting, lost the connection going down while that findById is
   awaited, failWrite the findByIdAndUpdate rejecting; a date that is no
   date makes the durable write reject with a cast error *)
Update(id, valid, date, text, removeFile, file, failRead, lost, failWrite) ==
    /\ Budget /\ Count
    /\ featReq' = featReq
    /\ UNCHANGED <<now, tz, OtherStores, nextOid>>
    /\ IF ~valid
       THEN /\ resp' = Plain("/update", 400)
            /\ UNCHANGED <<connected, dbMessages, tempMessages>>
       ELSE LET awaited == ~removeFile /\ file = None /\ connected
                existing == IF connected /\ ~DbThrows(id, failRead)
                            THEN find(dbMessages, id)
                            ELSE find(tempMessages, id)
                kept == attachment(removeFile, file, existing)
                patch == [date |-> NewDate(date), text |-> text,
                          pdfFile |-> kept.pdfFile, filePath |-> kept.filePath]
                form == Some([removeFile |-> removeFile, file |-> file])
                answer(status) == [Plain("/update", status) EXCEPT !.id = id, !.form = form]
            IN  /\ connected' = (connected /\ ~(awaited /\ lost))
                /\ IF connected' /\ ~DbThrows(id, failWrite) /\ patch.date # InvalidDate
                   THEN /\ dbMessages' = mergeById(dbMessages, id, patch)
                        /\ resp' = answer(IF Has(dbMessages, id) THEN 302 ELSE 404)
                        /\ UNCHANGED tempMessages
                   ELSE /\ tempMessages' = mergeById(tempMessages, id, patch)
                        /\ resp' = answer(IF Has(tempMessages, id) THEN 302 ELSE 404)
                        /\ UNCHANGED dbMessages

(* POST /update/:id with a complete form and removeFile off, one await at
   a time. Slot s holds the request while findById ("Keep existing file")
   or findByIdAndUpdate is pending; readyState is tested when the call is
   issued. *)
UpdateAnswer(id, file, status) ==
    [Plain("/update", status)
     EXCEPT !.id = id, !.form = Some([removeFile |-> FALSE, file |-> file])]

(* the catch (dbError) block around the write *)
UpdateFallback(s, id, file, patch) ==
    /\ tempMessages' = mergeById(tempMessages, id, patch)
    /\ resp' = UpdateAnswer(id, file, IF Has(tempMessages, id) THEN 302 ELSE 404)
    /\ featReq' = [featReq EXCEPT ![s] = Idle]
    /\ UNCHANGED dbMessages

(* the write, from the test of readyState on *)
UpdateIssueWrite(s, id, file, patch) ==
    IF connected
    THEN /\ featReq' = [featReq EXCEPT ![s] = [pc |-> "update:findByIdAndUpdate", id |-> id,
                                               file |-> file, patch |-> patch]]
         /\ UNCHANGED <<dbMessages, tempMessages, resp>>
    ELSE UpdateFallback(s, id, file, patch)

UpdatePatch(date, text, file, existing) ==
    LET kept == attachment(FALSE, file, existing)
    IN  [date |-> NewDate(date), text |-> text,
         pdfFile |-> kept.pdfFile, filePath |-> kept.filePath]

UpdateBegin(s, id, date, text, file) ==
    /\ featReq[s].pc = "idle"
    /\ UNCHANGED <<Env, OtherStores, nextOid, handled>>
    /\ IF file = None /\ connected
       THEN /\ featReq' = [featReq EXCEPT ![s] = [pc |-> "update:findById", id |-> id,
                                                  date |-> date, text |-> text]]
            /\ UNCHANGED <<dbMessages, tempMessages, resp>>
       ELSE UpdateIssueWrite(s, id, file, UpdatePatch(date, text, file, find(tempMessages, id)))

UpdateFindById(s, fail) ==
    /\ featReq[s].pc = "update:findById"
    /\ UNCHANGED <<Env, OtherStores, nextOid, handled>>
    /\ LET r == featReq[s]
           existing == IF DbThrows(r.id, fail) THEN find(tempMessages, r.id)
                       ELSE find(dbMessages, r.id)
       IN  UpdateIssueWrite(s, r.id, None, UpdatePatch(r.date, r.text, None, existing))

UpdateFindByIdAndUpdate(s, fail) ==
    /\ featReq[s].pc = "update:findByIdAndUpdate"
    /\ UNCHANGED <<Env, OtherStores, nextOid, handled>>
    /\ LET r == featReq[s]
       IN  IF DbThrows(r.id, fail) \/ r.patch.date = InvalidDate
           THEN UpdateFallback(s, r.id, r.file, r.patch)
           ELSE /\ dbMessages' = mergeById(dbMessages, r.id, r.patch)
                /\ resp' = UpdateAnswer(r.id, r.file,
                                        IF Has(dbMessages, r.id) THEN 302 ELSE 404)
                /\ featReq' = [featReq EXCEPT ![s] = Idle]
                /\ UNCHANGED tempMessages

(* the lookup of GET /edit/:id and GET /pdf/:id *)
lookup(id, fail) ==
    IF connected /\ ~DbThrows(id, fail) THEN find(dbMessages, id) ELSE find(tempMessages, id)

MessageFrame ==
    <<Env, OtherStores, nextOid, dbMessages, tempMessages, featReq>>

(* GET /edit/:id *)
Edit(id, fail) ==
    /\ Budget /\ Count
    /\ LET message == lookup(id, fail)
       IN  resp' = [Response("/edit", IF message = None THEN 404 ELSE 200,
                             message # None /\ connected, 0, NoList, NoList, NoList)
                    EXCEPT !.id = id, !.follows = Request(resp), !.message = message]
    /\ UNCHANGED MessageFrame

(* the status GET /pdf/:id answers for the message it found *)
pdfStatus(message, exists) ==
    IF message = None THEN 404
    ELSE IF message[1].pdfFile # None THEN 200
    ELSE IF message[1].filePath # "" /\ exists THEN 200
    ELSE 404

(* GET /pdf/:id: exists is fs.existsSync of the legacy path *)
Pdf(id, exists, fail) ==
    /\ Budget /\ Count
    /\ resp' = [Plain("/pdf", pdfStatus(lookup(id, fail), exists))
                EXCEPT !.id = id, !.follows = Request(resp)]
    /\ UNCHANGED MessageFrame

(* GET /messages and GET /pdf/:id, one await at a time: slot s holds the
   request while its durable call is pending; completes tells whether the
   call will ever resolve or reject. A request that is not connected
   answers from the fallback list at once. *)
Pending(completes, pc) == IF completes THEN pc ELSE "never"

MessagesBegin(s, completes) ==
    /\ featReq[s].pc = "idle"
    /\ UNCHANGED <<Env, OtherStores, nextOid, dbMessages, tempMessages, handled>>
    /\ IF connected
       THEN /\ featReq' = [featReq EXCEPT ![s] = [pc |-> Pending(completes, "find"), id |-> NoId]]
            /\ UNCHANGED resp
       ELSE /\ resp' = Response("/messages", 200, FALSE, 0, AllMessagesTemp, NoList, NoList)
            /\ UNCHANGED featReq

MessagesFind(s, fail) ==
    /\ featReq[s].pc = "find"
    /\ featReq' = [featReq EXCEPT ![s] = Idle]
    /\ resp' = IF ~fail
               THEN Response("/messages", 200, TRUE, 0, AllMessagesDb, NoList, NoList)
               ELSE Response("/messages", 200, FALSE, 0, AllMessagesTemp, NoList, NoList)
    /\ UNCHANGED <<Env, OtherStores, nextOid, dbMessages, tempMessages, handled>>

PdfBegin(s, id, exists, completes) ==
    /\ featReq[s].pc = "idle"
    /\ UNCHANGED <<Env, OtherStores, nextOid, dbMessages, tempMessages, handled>>
    /\ IF connected
       THEN /\ featReq' = [featReq EXCEPT ![s] = [pc |-> Pending(completes, "findById"),
                                                  id |-> id]]
            /\ UNCHANGED resp
       ELSE /\ resp' = [Plain("/pdf", pdfStatus(find(tempMessages, id), exists))
                        EXCEPT !.id = id]
            /\ UNCHANGED featReq

PdfFindById(s, exists, fail) ==
    /\ featReq[s].pc = "findById"
    /\ featReq' = [featReq EXCEPT ![s] = Idle]
    /\ LET id == featReq[s].id
           message == IF DbThrows(id, fail) THEN find(tempMessages, id)
                      ELSE find(dbMessages, id)
       IN  resp' = [Plain("/pdf", pdfStatus(message, exists)) EXCEPT !.id = id]
    /\ UNCHANGED <<Env, OtherStores, nextOid, dbMessages, tempMessages, handled>>

(* the response of POST /featured/:id *)
FeaturedResponse(status, id) ==
    [Plain("/featured", status) EXCEPT !.id = id, !.follows = Summary(resp)]

(* POST /featured/:id, run to completion: updateMany, findByIdAndUpdate and
   the catch block; failMany and failOne are the two awaited calls rejecting *)
Featured(id, failMany, failOne) ==
    /\ Budget /\ Count
    /\ featReq' = featReq
    /\ UNCHANGED <<Env, OtherStores, nextOid>>
    /\ LET fb == FeaturedFallback(tempMessages, id)
           cleared == updateManyUnfeature(dbMessages)
       IN  IF connected /\ ~failMany /\ ~DbThrows(id, failOne)
           THEN /\ dbMessages' = setFeaturedById(cleared, id, TRUE)
                /\ resp' = FeaturedResponse(IF findIndex(cleared, id) # 0 THEN 302 ELSE 404, id)
                /\ UNCHANGED tempMessages
           ELSE /\ dbMessages' = IF connected /\ ~failMany THEN cleared ELSE dbMessages
                /\ tempMessages' = fb.list
                /\ resp' = FeaturedResponse(fb.status, id)

(* the response of a request that ran interleaved with others: the order
   of the requests is not defined, so follows is left out *)
FeaturedStepResponse(status, id) == [Plain("/featured", status) EXCEPT !.id = id]

(* POST /featured/:id, one await at a time; slot s holds the request while
   one of its two durable calls is pending *)
FeaturedBegin(s, id) ==
    /\ featReq[s].pc = "idle"
    /\ UNCHANGED <<Env, OtherStores, nextOid, handled, dbMessages>>
    /\ IF connected
       THEN /\ featReq' = [featReq EXCEPT ![s] = [pc |-> "updateMany", id |-> id]]
            /\ UNCHANGED <<tempMessages, resp>>
       ELSE /\ tempMessages' = FeaturedFallback(tempMessages, id).list
            /\ resp' = FeaturedStepResponse(FeaturedFallback(tempMessages, id).status, id)
            /\ UNCHANGED featReq

FeaturedUpdateMany(s, fail) ==
    /\ featReq[s].pc = "updateMany"
    /\ UNCHANGED <<Env, OtherStores, nextOid, handled>>
    /\ LET id == featReq[s].id
           fb == FeaturedFallback(tempMessages, id)
       IN  IF fail
           THEN /\ tempMessages' = fb.list
                /\ resp' = FeaturedStepResponse(fb.status, id)
                /\ featReq' = [featReq EXCEPT ![s] = Idle]
                /\ UNCHANGED dbMessages
           ELSE /\ dbMessages' = updateManyUnfeature(dbMessages)
                /\ featReq' = [featReq EXCEPT ![s].pc = "findByIdAndUpdate"]
                /\ UNCHANGED <<tempMessages, resp>>

FeaturedFindByIdAndUpdate(s, fail) ==
    /\ featReq[s].pc = "findByIdAndUpdate"
    /\ UNCHANGED <<Env, OtherStores, nextOid, handled>>
    /\ featReq' = [featReq EXCEPT ![s] = Idle]
    /\ LET id == featReq[s].id
           fb == FeaturedFallback(tempMessages, id)
       IN  IF DbThrows(id, fail)
           THEN /\ tempMessages' = fb.list
                /\ resp' = FeaturedStepResponse(fb.status, id)
                /\ UNCHANGED dbMessages
           ELSE /\ dbMessages' = setFeaturedById(dbMessages, id, TRUE)
                /\ resp' = FeaturedStepResponse(IF findIndex(dbMessages, id) # 0 THEN 302 ELSE 404, id)
                /\ UNCHANGED tempMessages

(* POST /unfeature/:id *)
Unfeature(id, fail) ==
    /\ Budget /\ Count
    /\ featReq' = featReq
    /\ UNCHANGED <<Env, OtherStores, nextOid>>
    /\ IF connected /\ ~DbThrows(id, fail)
       THEN /\ dbMessages' = setFeaturedById(dbMessages, id, FALSE)
            /\ resp' = Plain("/unfeature", IF findIndex(dbMessages, id) # 0 THEN 200 ELSE 404)
            /\ UNCHANGED tempMessages
       ELSE /\ tempMessages' = setFeaturedById(tempMessages, id, FALSE)
            /\ resp' = Plain("/unfeature", IF findIndex(tempMessages, id) # 0 THEN 200 ELSE 404)
            /\ UNCHANGED dbMessages

(* POST /delete/:id *)
Delete(id, fail) ==
    /\ Budget /\ Count
    /\ featReq' = featReq
    /\ UNCHANGED <<Env, OtherStores, nextOid>>
    /\ resp' = Plain("/delete", 302)
    /\ IF connected /\ ~DbThrows(id, fail)
       THEN /\ dbMessages' = filterOut(dbMessages, id)
            /\ UNCHANGED tempMessages
       ELSE /\ tempMessages' = filterOut(tempMessages, id)
            /\ UNCHANGED dbMessages

(* GET /search: q is req.query.q, empty when the parameter is missing *)
Search(q, fail) ==
    /\ LET searchTerm == trim(q)
           form == Some([q |-> q])
       IN  resp' = IF searchTerm = <<>>
                   THEN [Plain("/search", 302) EXCEPT !.form = form]
                   ELSE IF connected /\ ~fail
                   THEN [Response("/search", 200, TRUE, 0, SearchDb(dbMessages, searchTerm),
                                  NoList, NoList) EXCEPT !.form = form]
                   ELSE [Response("/search", 200, FALSE, 0,
                                  SearchTemp(tempMessages, searchTerm), NoList, NoList)
                         EXCEPT !.form = form]
    /\ UNCHANGED <<MessageFrame, handled>>

(* GET /messages *)
Messages(fail) ==
    /\ resp' = IF connected /\ ~fail
               THEN Response("/messages", 200, TRUE, 0, AllMessagesDb, NoList, NoList)
               ELSE Response("/messages", 200, FALSE, 0, AllMessagesTemp, NoList, NoList)
    /\ UNCHANGED <<Env, OtherStores, nextOid, dbMessages, tempMessages, featReq, handled>>


----------------------------------------------------------------------------
(* Events *)

(* an event document that keeps the status it had when it was made *)
EventWithStatus(id, date, endDate, featured) ==
    [_id |-> id, date |-> date, endDate |-> endDate, featured |-> featured,
     active |-> TRUE, status |-> "upcoming"]

Event(id, date, endDate, featured) ==
    [_id |-> id, date |-> date, endDate |-> endDate, featured |-> featured,
     active |-> TRUE]

EventIds == {e._id : e \in Range(dbEvents)} \cup {<<"oid", 0>>, <<"t", 0>>}

(* a setHours that works on the UTC day instead of the local day *)
setHoursEndOfDayUTC(t, offset) == (t - (t % DayMs)) + (DayMs - 1)

(* Date.prototype.setHours(23, 59, 59, 999): the last millisecond of the
   local day that holds t, under the local-time offset *)
setHoursEndOfDay(t, offset) ==
    LET local == t + offset
    IN  (local - (local % DayMs)) + (DayMs - 1) - offset

(* the multi-day branch asking first whether the end has passed *)
calculateEventStatusEndFirst(event, clock, offset) ==
    LET startDate == event.date
    IN  IF event.endDate # None
        THEN LET endDate == event.endDate[1]
             IN  IF clock > endDate THEN "completed"
                 ELSE IF clock < startDate THEN "upcoming"
                 ELSE "ongoing"
        ELSE LET eventDay == setHoursEndOfDay(startDate, offset)
             IN  IF clock < startDate THEN "upcoming"
                 ELSE IF clock <= eventDay THEN "ongoing"
                 ELSE "completed"

calculateEventStatus(event, clock, offset) ==
    LET startDate == event.date
    IN  IF event.endDate # None
        THEN LET endDate == event.endDate[1]
             IN  IF clock < startDate THEN "upcoming"
                 ELSE IF clock >= startDate /\ clock <= endDate THEN "ongoing"
                 ELSE "completed"
        ELSE LET eventDay == setHoursEndOfDay(startDate, offset)
             IN  IF clock < startDate THEN "upcoming"
                 ELSE IF clock <= eventDay THEN "ongoing"
                 ELSE "completed"

(* .sort({ date: 1 }) and .sort({ date: -1 }) *)
MongoByDateAsc(a, b) == a.date - b.date

(* { ...event._doc, status: calculateEventStatus(event) } *)
WithStatus(e) ==
    [_id |-> e._id, date |-> e.date, endDate |-> e.endDate, featured |-> e.featured,
     active |-> e.active, status |-> calculateEventStatus(e, now, tz)]

EventLimit == 6

(* Event.find({ active: true }).sort({ date: 1 }).limit(6), then the map *)
HomeEvents ==
    LET active == SelectSeq(dbEvents, LAMBDA e : e.active)
        found == Take(SortBy(active, [a \in Range(active), b \in Range(active) |-> MongoByDateAsc(a, b)]),
                      EventLimit)
    IN  [i \in 1..Len(found) |-> WithStatus(found[i])]

(* every use of the fallback list of events: tempEvents is declared nowhere,
   so evaluating it throws a ReferenceError inside the catch (dbError)
   block, which the handler's outer catch answers with status 500 *)
tempEventsThrows(route) == Plain(route, 500)

EventFrame == <<now, tz, connected, nextOid, dbMessages, tempMessages,
                dbAnnouncements, tempAnnouncements, featReq>>

RequiredEventFields == {"title", "date", "venue", "description"}

(* POST /upload-event: fields are the fields of the body that are not
   empty, hasFile is req.file *)
UploadEvent(fields, hasFile, date, endDate, featured, fail) ==
    /\ BudgetEvt /\ Count
    /\ UNCHANGED <<now, tz, connected, dbMessages, tempMessages, dbAnnouncements,
                   tempAnnouncements, featReq>>
    /\ LET form == Some([fields |-> fields, file |-> hasFile])
       IN  IF ~(RequiredEventFields \subseteq fields) \/ ~hasFile
           THEN /\ resp' = [Plain("/upload-event", 400) EXCEPT !.form = form]
                /\ UNCHANGED <<nextOid, dbEvents>>
           ELSE IF connected /\ ~fail
           THEN /\ dbEvents' =
                     Append(dbEvents, Event(<<"oid", nextOid + 1>>, date, endDate, featured))
                /\ nextOid' = nextOid + 1
                /\ resp' = [Plain("/upload-event", 302) EXCEPT !.form = form]
           ELSE /\ resp' = [tempEventsThrows("/upload-event") EXCEPT !.form = form]
                /\ UNCHANGED <<nextOid, dbEvents>>

(* POST /update-event/:id; failRead is the re-read of the stored image
   rejecting, failWrite the findByIdAndUpdate *)
UpdateEvent(id, valid, date, endDate, featured, removeFeatured, failRead, failWrite) ==
    /\ BudgetEvt /\ Count
    /\ UNCHANGED EventFrame
    /\ IF ~valid
       THEN /\ resp' = Plain("/update-event", 400)
            /\ UNCHANGED dbEvents
       ELSE IF connected /\ ~DbThrows(id, failRead) /\ ~DbThrows(id, failWrite)
       THEN LET k == findIndex(dbEvents, id)
            IN  /\ dbEvents' = IF k = 0 THEN dbEvents
                               ELSE [dbEvents EXCEPT ![k].date = date,
                                                     ![k].endDate = endDate,
                                                     ![k].featured = featured /\ ~removeFeatured]
                /\ resp' = Plain("/update-event", IF k # 0 THEN 302 ELSE 404)
       ELSE /\ resp' = tempEventsThrows("/update-event")
            /\ UNCHANGED dbEvents

(* POST /delete-event/:id *)
DeleteEvent(id, fail) ==
    /\ BudgetEvt /\ Count
    /\ UNCHANGED EventFrame
    /\ IF connected /\ ~DbThrows(id, fail)
       THEN /\ dbEvents' = filterOut(dbEvents, id)
            /\ resp' = Plain("/delete-event", 302)
       ELSE /\ resp' = tempEventsThrows("/delete-event")
            /\ UNCHANGED dbEvents

(* POST /unfeature-event/:id *)
UnfeatureEvent(id, fail) ==
    /\ BudgetEvt /\ Count
    /\ UNCHANGED EventFrame
    /\ IF connected /\ ~DbThrows(id, fail)
       THEN LET k == findIndex(dbEvents, id)
            IN  /\ dbEvents' = IF k = 0 THEN dbEvents ELSE [dbEvents EXCEPT ![k].featured = FALSE]
                /\ resp' = Plain("/unfeature-event", IF k # 0 THEN 200 ELSE 404)
       ELSE /\ resp' = tempEventsThrows("/unfeature-event")
            /\ UNCHANGED dbEvents

(* GET /admin-events *)
AdminEvents(fail) ==
    /\ resp' = IF connected /\ ~fail
               THEN Response("/admin-events", 200, TRUE, 0, NoList,
                             SortBy(dbEvents, [a \in Range(dbEvents), b \in Range(dbEvents) |-> MongoByDateDesc(a, b)]), NoList)
               ELSE tempEventsThrows("/admin-events")
    /\ UNCHANGED <<EventFrame, dbEvents, handled>>

(* GET /events-data: the stored events, as they are *)
EventsData(fail) ==
    /\ resp' = IF connected /\ ~fail
               THEN Response("/events-data", 200, FALSE, now, NoList,
                             SortBy(dbEvents, [a \in Range(dbEvents), b \in Range(dbEvents) |-> MongoByDateAsc(a, b)]), NoList)
               ELSE tempEventsThrows("/events-data")
    /\ UNCHANGED <<EventFrame, dbEvents, handled>>

----------------------------------------------------------------------------
(* Announcements *)

AnnouncementLimit == 3

DefaultPriority == 3

(* parseInt(priority) || 3 *)
(* min and max of priority in announcementSchema *)
MinPriority == 1
MaxPriority == 5

(* the validators of announcementSchema, as Document.prototype.save runs
   them; findByIdAndUpdate does not run them *)
validateAnnouncement(doc) ==
    MinPriority <= doc.priority /\ doc.priority <= MaxPriority

parsePriority(raw) ==
    IF raw = None \/ raw[1] = 0 THEN DefaultPriority ELSE raw[1]

Announcement(id, form, active, createdAt) ==
    [_id |-> id, featured |-> form.featured, priority |-> parsePriority(form.priority),
     active |-> active, expiresAt |-> form.expiresAt, createdAt |-> createdAt]

(* { ...stored, ...updatedAnnouncement }: _id and createdAt stay *)
Merge(stored, form, active) ==
    Announcement(stored._id, form, active, stored.createdAt)

AnnouncementIds ==
    {x._id : x \in Range(dbAnnouncements) \cup Range(tempAnnouncements)} \cup {<<"oid", 0>>}

(* a filter that looks at active alone *)
isActive(ann, clock) == ann.active

(* ann.active && (!ann.expiresAt || new Date(ann.expiresAt) > new Date()) *)
isVisibleTemp(ann, clock) ==
    ann.active /\ (ann.expiresAt = None \/ ann.expiresAt[1] > clock)

(* { active: true, $or: [{ expiresAt: null }, { expiresAt: { $gt: new Date() } }] } *)
isVisibleDb(ann, clock) ==
    /\ ann.active = TRUE
    /\ \/ ann.expiresAt = None
       \/ ann.expiresAt # None /\ ann.expiresAt[1] > clock

(* the comparator of the fallback listing *)
compareAnnouncements(a, b) ==
    IF a.featured /\ ~b.featured THEN -1
    ELSE IF ~a.featured /\ b.featured THEN 1
    ELSE IF a.priority # b.priority THEN b.priority - a.priority
    ELSE b.createdAt - a.createdAt

(* .sort({ featured: -1, priority: -1, createdAt: -1 }) *)
MongoByFeaturedPriorityCreated(a, b) ==
    IF a.featured # b.featured THEN (IF a.featured THEN -1 ELSE 1)
    ELSE IF a.priority # b.priority THEN b.priority - a.priority
    ELSE b.createdAt - a.createdAt

(* Announcement.find({...}).sort({...}).limit(3) *)
ActiveAnnouncementsDb ==
    LET found == SelectSeq(dbAnnouncements, LAMBDA x : isVisibleDb(x, now))
    IN  Take(SortBy(found, [a \in Range(found), b \in Range(found) |->
                                MongoByFeaturedPriorityCreated(a, b)]),
             AnnouncementLimit)

(* tempAnnouncements.filter(...).sort(...).slice(0, 3) *)
ActiveAnnouncementsTemp ==
    LET found == SelectSeq(tempAnnouncements, LAMBDA x : isVisibleTemp(x, now))
    IN  Take(SortBy(found, [a \in Range(found), b \in Range(found) |->
                                compareAnnouncements(a, b)]),
             AnnouncementLimit)

AnnouncementFrame == <<now, tz, connected, dbMessages, tempMessages, dbEvents, featReq>>

RequiredAnnouncementFields == {"title", "content"}

(* POST /create-announcement: fields are the fields of the body that are
   not empty *)
CreateAnnouncement(fields, form, fail) ==
    /\ BudgetAnn /\ Count
    /\ UNCHANGED AnnouncementFrame
    /\ IF ~(RequiredAnnouncementFields \subseteq fields)
       THEN /\ resp' = [Plain("/create-announcement", 400)
                        EXCEPT !.form = Some([fields |-> fields])]
            /\ UNCHANGED <<nextOid, dbAnnouncements, tempAnnouncements>>
       ELSE /\ resp' = [Plain("/create-announcement", 302)
                        EXCEPT !.form = Some([fields |-> fields])]
            /\ IF /\ connected /\ ~fail
                  /\ validateAnnouncement(Announcement(<<"oid", nextOid + 1>>, form, TRUE, now))
               THEN /\ dbAnnouncements' =
                         Append(dbAnnouncements,
                                Announcement(<<"oid", nextOid + 1>>, form, TRUE, now))
                    /\ nextOid' = nextOid + 1
                    /\ UNCHANGED tempAnnouncements
               ELSE /\ tempAnnouncements' =
                         <<Announcement(<<"t", now>>, form, TRUE, now)>> \o tempAnnouncements
                    /\ UNCHANGED <<nextOid, dbAnnouncements>>

(* POST /update-announcement/:id *)
UpdateAnnouncement(id, valid, form, active, fail) ==
    /\ BudgetAnn /\ Count
    /\ UNCHANGED <<AnnouncementFrame, nextOid>>
    /\ IF ~valid
       THEN /\ resp' = Plain("/update-announcement", 400)
            /\ UNCHANGED <<dbAnnouncements, tempAnnouncements>>
       ELSE IF connected /\ ~DbThrows(id, fail)
       THEN LET k == findIndex(dbAnnouncements, id)
            IN  /\ dbAnnouncements' =
                     IF k = 0 THEN dbAnnouncements
                     ELSE [dbAnnouncements EXCEPT ![k] = Merge(@, form, active)]
                /\ resp' = [Plain("/update-announcement", IF k # 0 THEN 302 ELSE 404)
                            EXCEPT !.id = id]
                /\ UNCHANGED tempAnnouncements
       ELSE LET k == findIndex(tempAnnouncements, id)
            IN  /\ tempAnnouncements' =
                     IF k = 0 THEN tempAnnouncements
                     ELSE [tempAnnouncements EXCEPT ![k] = Merge(@, form, active)]
                /\ resp' = [Plain("/update-announcement", IF k # 0 THEN 302 ELSE 404)
                            EXCEPT !.id = id]
                /\ UNCHANGED dbAnnouncements

(* POST /delete-announcement/:id *)
DeleteAnnouncement(id, fail) ==
    /\ BudgetAnn /\ Count
    /\ UNCHANGED <<AnnouncementFrame, nextOid>>
    /\ resp' = Plain("/delete-announcement", 302)
    /\ IF connected /\ ~DbThrows(id, fail)
       THEN /\ dbAnnouncements' = filterOut(dbAnnouncements, id)
            /\ UNCHANGED tempAnnouncements
       ELSE /\ tempAnnouncements' = filterOut(tempAnnouncements, id)
            /\ UNCHANGED dbAnnouncements

(* POST /toggle-announcement/:id; failFind is findById rejecting, failSave
   the save() of the toggled document *)
ToggleAnnouncement(id, failFind, failSave) ==
    /\ BudgetAnn /\ Count
    /\ UNCHANGED <<AnnouncementFrame, nextOid>>
    /\ resp' = Plain("/toggle-announcement", 302)
    /\ IF connected /\ ~DbThrows(id, failFind) /\ ~(Has(dbAnnouncements, id) /\ failSave)
       THEN LET k == findIndex(dbAnnouncements, id)
            IN  /\ dbAnnouncements' =
                     IF k = 0 THEN dbAnnouncements
                     ELSE [dbAnnouncements EXCEPT ![k].active = ~@]
                /\ UNCHANGED tempAnnouncements
       ELSE LET k == findIndex(tempAnnouncements, id)
            IN  /\ tempAnnouncements' =
                     IF k = 0 THEN tempAnnouncements
                     ELSE [tempAnnouncements EXCEPT ![k].active = ~@]
                /\ UNCHANGED dbAnnouncements

(* GET /active-announcements *)
ActiveAnnouncements(fail) ==
    /\ resp' = IF connected /\ ~fail
               THEN Response("/active-announcements", 200, TRUE, now, NoList, NoList,
                             ActiveAnnouncementsDb)
               ELSE Response("/active-announcements", 200, FALSE, now, NoList, NoList,
                             ActiveAnnouncementsTemp)
    /\ UNCHANGED <<AnnouncementFrame, nextOid, dbAnnouncements, tempAnnouncements, handled>>

(* GET /: the durable queries, or the fallback branch, which stops at
   tempEvents and leaves the outer catch to render the first messages of
   the fallback list and no events and no announcements *)
Home(fail) ==
    /\ resp' = IF connected /\ ~fail
               THEN Response("/", 200, TRUE, now, HomeMessagesDb, HomeEvents, ActiveAnnouncementsDb)
               ELSE Response("/", 200, FALSE, now, HomeMessagesTemp, NoList, NoList)
    /\ UNCHANGED <<Env, OtherStores, nextOid, dbMessages, tempMessages, featReq, handled>>

----------------------------------------------------------------------------
(* Environment *)

(* the connection to the durable backend comes up or goes down *)
Connect ==
    /\ ~connected
    /\ connected' = TRUE
    /\ UNCHANGED <<now, tz, nextOid, dbMessages, tempMessages, OtherStores, featReq, handled, resp>>

Disconnect ==
    /\ connected
    /\ connected' = FALSE
    /\ UNCHANGED <<now, tz, nextOid, dbMessages, tempMessages, OtherStores, featReq, handled, resp>>

(* a millisecond passes *)
Tick ==
    /\ now < StartMs + MaxClock
    /\ now' = now + 1
    /\ UNCHANGED <<connected, tz, nextOid, dbMessages, tempMessages, OtherStores, featReq, handled, resp>>

(* the instants at which requests are looked at: the local wall-clock
   readings 01-09 23:59:59, 01-10 12:00:00 and 01-11 00:00:01, and the
   instants around the start and the end of the event dates *)
ClockReadings ==
    {Jan(9, 23, 59, 59) - tz, Jan(10, 12, 0, 0) - tz, Jan(11, 0, 0, 1) - tz,
     Jan(10, 0, 0, 0) - 1, Jan(10, 0, 0, 0),
     Jan(11, 0, 0, 0), Jan(11, 0, 0, 0) + 1}

(* time passes *)
Advance ==
    /\ \E t \in ClockReadings : t > now /\ now' = t
    /\ UNCHANGED <<connected, tz, nextOid, dbMessages, tempMessages, OtherStores, featReq, handled, resp>>

----------------------------------------------------------------------------
(* Specifications *)

(* the process starts with the fallback lists as declared; the durable
   collections are what earlier runs left *)
InitStores(offsets, collections) ==
    /\ connected \in BOOLEAN
    /\ now = StartMs
    /\ tz \in offsets
    /\ dbMessages \in collections
    /\ nextOid = Len(dbMessages)
    /\ tempMessages = SeedMessages
    /\ dbEvents = <<>>
    /\ dbAnnouncements = <<>>
    /\ tempAnnouncements = <<>>
    /\ featReq = [s \in Slots |-> Idle]
    /\ handled = 0
    /\ resp = Plain("none", 0)

(* the message requests read no local time *)
Init == InitStores({0}, {<<>>, PersistedMessages})

(* a durable call can reject only when one is made *)
Fails == IF connected THEN BOOLEAN ELSE {FALSE}

(* the inputs of a request that is rejected before they are read are fixed *)
Given(read, S) == IF read THEN S ELSE {CHOOSE x \in S : TRUE}

MessageRequest ==
    \/ \E fields \in {RequiredMessageFields, RequiredMessageFields \ {"title"}} :
          \E date \in Given(fields = RequiredMessageFields, MessageDates),
             fail \in Given(fields = RequiredMessageFields, Fails) :
          Upload(fields, date, "grace", None, fail)
    \/ \E id \in MessageIds, valid \in BOOLEAN :
          \E date \in Given(valid, MessageDates), fail \in Given(valid, Fails) :
          Update(id, valid, date, "grace", FALSE, None, fail, FALSE, fail)
    \/ \E id \in MessageIds, failMany \in Fails : \E failOne \in Given(~failMany, Fails) :
          Featured(id, failMany, failOne)
    \/ \E id \in MessageIds, fail \in Fails : Unfeature(id, fail)
    \/ \E id \in MessageIds, fail \in Fails : Delete(id, fail)
    \/ \E fail \in Fails : Messages(fail)
    \/ \E fail \in Fails : Home(fail)

Next ==
    \/ MessageRequest
    \/ Connect
    \/ Disconnect
    \/ Tick

Spec == Init /\ [][Next]_vars

EventRequest ==
    \/ \E valid \in BOOLEAN, hasFile \in BOOLEAN :
          \E date \in Given(valid /\ hasFile, EventDates),
             endDate \in Given(valid /\ hasFile, EndDates),
             featured \in Given(valid /\ hasFile, BOOLEAN),
             fail \in Given(valid /\ hasFile, Fails) :
          UploadEvent(IF valid THEN RequiredEventFields ELSE RequiredEventFields \ {"title"},
                      hasFile, date, endDate, featured, fail)
    \/ \E id \in EventIds, valid \in BOOLEAN :
          \E date \in Given(valid, EventDates), endDate \in Given(valid, EndDates),
             featured \in Given(valid, BOOLEAN), removeFeatured \in Given(valid, BOOLEAN),
             failRead \in Given(valid, Fails) :
          \E failWrite \in Given(valid /\ ~failRead, Fails) :
          UpdateEvent(id, valid, date, endDate, featured, removeFeatured, failRead, failWrite)
    \/ \E id \in EventIds, fail \in Fails : DeleteEvent(id, fail)
    \/ \E id \in EventIds, fail \in Fails : UnfeatureEvent(id, fail)
    \/ \E fail \in Fails : AdminEvents(fail)
    \/ \E fail \in Fails : EventsData(fail)
    \/ \E fail \in Fails : Home(fail)

NextEvt ==
    \/ EventRequest
    \/ Connect
    \/ Disconnect
    \/ Advance

InitEvt == InitStores(TzOffsets, {<<>>})

SpecEvt == InitEvt /\ [][NextEvt]_vars

AnnouncementRequest ==
    \/ \E valid \in BOOLEAN :
          \E form \in Given(valid, AnnouncementForms), fail \in Given(valid, Fails) :
          CreateAnnouncement(IF valid THEN RequiredAnnouncementFields ELSE {"content"},
                             form, fail)
    \/ \E id \in AnnouncementIds, valid \in BOOLEAN :
          \E form \in Given(valid, AnnouncementForms), active \in Given(valid, BOOLEAN),
             fail \in Given(valid, Fails) :
          UpdateAnnouncement(id, valid, form, active, fail)
    \/ \E id \in AnnouncementIds, fail \in Fails : DeleteAnnouncement(id, fail)
    \/ \E id \in AnnouncementIds, failFind \in Fails :
          \E failSave \in Given(~failFind, Fails) : ToggleAnnouncement(id, failFind, failSave)
    \/ \E fail \in Fails : ActiveAnnouncements(fail)
    \/ \E fail \in Fails : Home(fail)

(* the instants at which the announcements are looked at: the start, and
   the instant the forms' expiresAt names *)
AnnouncementReadings == {StartMs, ExpiryMs}

Elapse ==
    /\ \E t \in AnnouncementReadings : t > now /\ now' = t
    /\ UNCHANGED <<connected, tz, nextOid, dbMessages, tempMessages, OtherStores, featReq, handled, resp>>

NextAnn ==
    \/ AnnouncementRequest
    \/ Connect
    \/ Disconnect
    \/ Elapse

InitAnn == InitStores({0}, {<<>>})

SpecAnn == InitAnn /\ [][NextAnn]_vars

(* updates of messages and of announcements *)
UpdateRequest ==
    \/ \E id \in MessageIds, valid \in BOOLEAN :
          \E date \in Given(valid, MessageDates), fail \in Given(valid, Fails) :
          Update(id, valid, date, "grace", FALSE, None, fail, FALSE, fail)
    \/ \E valid \in BOOLEAN :
          \E form \in Given(valid, AnnouncementForms), fail \in Given(valid, Fails) :
          CreateAnnouncement(IF valid THEN RequiredAnnouncementFields ELSE {"content"},
                             form, fail)
    \/ \E id \in AnnouncementIds, valid \in BOOLEAN :
          \E form \in Given(valid, AnnouncementForms), active \in Given(valid, BOOLEAN),
             fail \in Given(valid, Fails) :
          UpdateAnnouncement(id, valid, form, active, fail)

NextUpd ==
    \/ UpdateRequest
    \/ Connect
    \/ Disconnect

InitUpd == InitStores({0}, {PersistedMessages})

SpecUpd == InitUpd /\ [][NextUpd]_vars

(* the bodies of the create forms: complete, one required field short, or
   empty *)
Short(required) == {required} \cup {required \ {f} : f \in required} \cup {{}}

CreateRequest ==
    \/ \E fields \in Short(RequiredMessageFields), text \in TextInputs, fail \in Fails :
          Upload(fields, "2023-11-01", text, None, fail)
    \/ \E fields \in Short(RequiredEventFields), hasFile \in BOOLEAN, fail \in Fails :
          UploadEvent(fields, hasFile, Jan(10, 0, 0, 0), None, FALSE, fail)
    \/ \E fields \in Short(RequiredAnnouncementFields), fail \in Fails :
          \E form \in {f \in AnnouncementForms : f.priority = None /\ ~f.featured} :
          CreateAnnouncement(fields, form, fail)

NextCreate ==
    \/ CreateRequest
    \/ Connect
    \/ Disconnect

InitCreate == InitStores({0}, {<<>>})

SpecCreate == InitCreate /\ [][NextCreate]_vars

(* the queries of GET /search: none, blank, a word in another case with
   blanks around it, upper case, a code in lower case, two words, a
   pattern character, a word no message has *)
Queries ==
    { <<>>, << " ", " " >>, << " ", "F", "a", "i", "t", "h", " " >>, << "J", "O", "H", "N" >>, << "p", "f" >>, << "g", "r", "a", "c", "e", " ", "a" >>, << "g", ".", "d" >>, << "x", "y", "z" >> }

SearchRequest ==
    \/ \E text \in TextInputs, fail \in Fails :
          Upload(RequiredMessageFields, "2023-11-01", text, None, fail)
    \/ \E id \in MessageIds, fail \in Fails :
          Update(id, TRUE, "2023-09-01", "faith", FALSE, None, fail, FALSE, fail)
    \/ \E id \in MessageIds, fail \in Fails : Delete(id, fail)
    \/ \E q \in Queries, fail \in Fails : Search(q, fail)

NextSearch ==
    \/ SearchRequest
    \/ Connect
    \/ Disconnect

InitSearch == InitStores({0}, {PersistedMessages})

SpecSearch == InitSearch /\ [][NextSearch]_vars

(* announcement forms that differ in the priority field: empty, "0", "5",
   "9" and "-2" as parseInt reads them *)
PriorityForms ==
    { [featured |-> FALSE, priority |-> p, expiresAt |-> None] :
      p \in {None, Some(0), Some(5), Some(9), Some(-2)} }

PriorityRequest ==
    \/ \E form \in PriorityForms, fail \in Fails :
          CreateAnnouncement(RequiredAnnouncementFields, form, fail)
    \/ \E id \in AnnouncementIds, form \in PriorityForms, fail \in Fails :
          UpdateAnnouncement(id, TRUE, form, TRUE, fail)

NextPri ==
    \/ PriorityRequest
    \/ Connect
    \/ Disconnect

InitPri == InitStores({0}, {<<>>})

SpecPri == InitPri /\ [][NextPri]_vars

(* GET /messages and GET /pdf/:id requests in flight; a durable call
   for an id that is no ObjectId is rejected before it is sent *)
NextLive ==
    \/ \E s \in Slots, completes \in BOOLEAN : MessagesBegin(s, completes)
    \/ \E s \in Slots, fail \in BOOLEAN : MessagesFind(s, fail)
    \/ \E s \in Slots, id \in MessageIds, exists \in BOOLEAN :
          \E completes \in (IF IsObjectId(id) THEN BOOLEAN ELSE {TRUE}) :
          PdfBegin(s, id, exists, completes)
    \/ \E s \in Slots, exists \in BOOLEAN, fail \in BOOLEAN : PdfFindById(s, exists, fail)
    \/ Connect
    \/ Disconnect

InitLive == InitStores({0}, {PersistedMessages})

(* the event loop runs the continuation of every durable call that has
   resolved or rejected *)
FairLive ==
    \A s \in Slots :
       /\ WF_vars(\E fail \in BOOLEAN : MessagesFind(s, fail))
       /\ WF_vars(\E exists \in BOOLEAN, fail \in BOOLEAN : PdfFindById(s, exists, fail))

SpecLive == InitLive /\ [][NextLive]_vars /\ FairLive

(* POST /update/:id requests in flight for a durable message and for a
   message of the fallback list, with and without a new file; the re-read
   does not fail *)
NextLost ==
    \/ \E s \in Slots, id \in {<<"oid", 1>>, <<"seed", 1>>}, file \in {None, Some("b.pdf")} :
          UpdateBegin(s, id, "2023-09-01", "faith", file)
    \/ \E s \in Slots : UpdateFindById(s, FALSE)
    \/ \E s \in Slots, fail \in BOOLEAN : UpdateFindByIdAndUpdate(s, fail)
    \/ Connect
    \/ Disconnect

InitLost == InitStores({0}, {PersistedMessages})

SpecLost == InitLost /\ [][NextLost]_vars

(* requireAuth: the handler runs for an authenticated session, every other
   request is redirected to the login page *)
requireAuth(isAuthenticated, next) ==
    IF isAuthenticated
    THEN next
    ELSE /\ resp' = Plain("/admin-login", 302)
         /\ UNCHANGED <<Env, nextOid, dbMessages, tempMessages, OtherStores, featReq, handled>>

(* a message as the earlier upload handler stored it: the file on disk under
   public/uploads and its path in filePath, no pdfFile *)
LegacyMessages ==
    << MessageOf(<<"oid", 1>>, 20231008, "grace", None, "/uploads/legacy.pdf", FALSE),
       Message(<<"oid", 2>>, 20231015, FALSE) >>

(* path.basename of the paths in use *)
basename(p) ==
    CASE p = "/uploads/legacy.pdf" -> "legacy.pdf"
      [] p = "/pdf/upload" -> "upload"
      [] p = "/pdf/:id" -> ":id"
      [] OTHER -> p

(* the messages GET /migrate-pdfs reads a file for: found by
   { filePath: { $ne: '' } }, with a filePath, without pdfFile, and with the
   file on disk *)
toMigrate(coll, onDisk) ==
    {i \in 1..Len(coll) :
        coll[i].filePath # "" /\ coll[i].pdfFile = None /\ coll[i].filePath \in onDisk}

(* GET /migrate-pdfs: onDisk are the paths fs.existsSync finds, saves the
   number of message.save() calls that resolve before one rejects *)
MigratePdfs(onDisk, fail, saves) ==
    /\ UNCHANGED <<Env, nextOid, tempMessages, OtherStores, featReq, handled>>
    /\ IF ~connected
       THEN /\ resp' = Plain("/migrate-pdfs", 200)
            /\ UNCHANGED dbMessages
       ELSE IF fail
       THEN /\ resp' = Plain("/migrate-pdfs", 500)
            /\ UNCHANGED dbMessages
       ELSE LET found == toMigrate(dbMessages, onDisk)
                saved == {i \in found : Cardinality({j \in found : j <= i}) <= saves}
            IN  /\ saves <= Cardinality(found)
                /\ dbMessages' =
                      [i \in 1..Len(dbMessages) |->
                          IF i \in saved
                          THEN [dbMessages[i] EXCEPT !.pdfFile = Some(basename(dbMessages[i].filePath))]
                          ELSE dbMessages[i]]
                /\ resp' = Plain("/migrate-pdfs", IF saves < Cardinality(found) THEN 500 ELSE 200)

(* the routes registered with requireAuth that write to a store *)
Protected ==
    \/ \E fail \in Fails : Upload(RequiredMessageFields, "2023-11-01", "grace", None, fail)
    \/ \E id \in MessageIds, fail \in Fails :
          Update(id, TRUE, "2023-11-01", "grace", FALSE, None, fail, FALSE, fail)
    \/ \E id \in MessageIds, fail \in Fails : Featured(id, FALSE, fail)
    \/ \E id \in MessageIds, fail \in Fails : Unfeature(id, fail)
    \/ \E id \in MessageIds, fail \in Fails : Delete(id, fail)
    \/ \E fail \in Fails :
          UploadEvent(RequiredEventFields, TRUE, Jan(10, 0, 0, 0), None, TRUE, fail)
    \/ \E id \in EventIds, fail \in Fails :
          UpdateEvent(id, TRUE, Jan(10, 0, 0, 0), None, FALSE, FALSE, fail, fail)
    \/ \E id \in EventIds, fail \in Fails : DeleteEvent(id, fail)
    \/ \E id \in EventIds, fail \in Fails : UnfeatureEvent(id, fail)
    \/ \E form \in AnnouncementForms, fail \in Fails :
          CreateAnnouncement(RequiredAnnouncementFields, form, fail)
    \/ \E id \in AnnouncementIds, form \in AnnouncementForms, fail \in Fails :
          UpdateAnnouncement(id, TRUE, form, FALSE, fail)
    \/ \E id \in AnnouncementIds, fail \in Fails : DeleteAnnouncement(id, fail)
    \/ \E id \in AnnouncementIds, fail \in Fails : ToggleAnnouncement(id, fail, FALSE)

(* the routes registered without requireAuth *)
Public ==
    \/ \E onDisk \in SUBSET {"/uploads/legacy.pdf"}, fail \in Fails :
          \E saves \in 0..Len(dbMessages) : MigratePdfs(onDisk, fail, saves)
    \/ \E fail \in Fails : Messages(fail)
    \/ \E fail \in Fails : ActiveAnnouncements(fail)
    \/ \E fail \in Fails : Home(fail)

NextAuth ==
    \/ \E isAuthenticated \in BOOLEAN : Budget /\ requireAuth(isAuthenticated, Protected)
    \/ Public
    \/ Connect
    \/ Disconnect

InitAuth == InitStores({0}, {LegacyMessages})

SpecAuth == InitAuth /\ [][NextAuth]_vars

(* uploads, deletes and listings while the backend comes and goes; the
   durable store starts empty, so every durable message is an uploaded one *)
NextList ==
    \/ \E date \in MessageDates, file \in {None, Some("b.pdf")}, fail \in Fails :
          Upload(RequiredMessageFields, date, "grace", file, fail)
    \/ \E id \in MessageIds, fail \in Fails : Delete(id, fail)
    \/ \E fail \in Fails : Messages(fail)
    \/ Connect
    \/ Disconnect
    \/ Tick

InitList == InitStores({0}, {<<>>})

SpecList == InitList /\ [][NextList]_vars

(* the upload forms: date field, text and file; "soon" is no date *)
UploadForms ==
    { <<"2023-11-01", "grace", None>>,
      <<"2023-11-01", "faith", Some("b.pdf")>>,
      <<"soon", "grace", None>> }

FileRequest ==
    \/ \E form \in UploadForms, fail \in Fails :
          Upload(RequiredMessageFields, form[1], form[2], form[3], fail)
    \/ \E id \in MessageIds, removeFile \in BOOLEAN, file \in {None, Some("b.pdf")} :
          \E failRead \in Given(~removeFile /\ file = None, Fails),
             lost \in Given(~removeFile /\ file = None /\ connected, BOOLEAN) :
          \E failWrite \in Given(~lost, Fails) :
          Update(id, TRUE, "2023-09-01", "faith", removeFile, file, failRead, lost, failWrite)
    \/ \E id \in MessageIds, fail \in Fails : Edit(id, fail)
    \/ \E id \in MessageIds, fail \in Fails :
          \E exists \in Given(lookup(id, fail) # None, BOOLEAN) : Pdf(id, exists, fail)

NextFile ==
    \/ FileRequest
    \/ Connect
    \/ Disconnect

InitFile == InitStores({0}, {PersistedMessages})

SpecFile == InitFile /\ [][NextFile]_vars

(* two POST /featured/:id requests in flight between other requests *)
NextConc ==
    \/ \E s \in Slots, id \in MessageIds : FeaturedBegin(s, id)
    \/ \E s \in Slots, fail \in BOOLEAN : FeaturedUpdateMany(s, fail)
    \/ \E s \in Slots, fail \in BOOLEAN : FeaturedFindByIdAndUpdate(s, fail)
    \/ \E date \in MessageDates, fail \in Fails : Upload(RequiredMessageFields, date, "grace", None, fail)
    \/ Connect
    \/ Disconnect

InitConc == InitStores({0}, {PersistedMessages})

SpecConc == InitConc /\ [][NextConc]_vars

----------------------------------------------------------------------------
(* Properties of the message store *)

FeaturedAt(list) == {i \in 1..Len(list) : list[i].featured}

(* C1: handled one at a time, the message requests leave at most one
   featured message in each backend *)
C1_AtMostOneFeatured ==
    /\ Cardinality(FeaturedAt(dbMessages)) <= 1
    /\ Cardinality(FeaturedAt(tempMessages)) <= 1

(* a set-featured request has moved the flag off the message that had it
   when the process started *)
C1_Witness ==
    /\ resp.route = "/featured" /\ resp.status = 302
    /\ resp.id # SeedMessages[1]._id
    /\ \E i \in FeaturedAt(tempMessages) : tempMessages[i]._id = resp.id

(* C2: with two set-featured requests interleaving at their awaits, no
   backend ever holds two featured messages *)
C2_SingletonUnderInterleaving ==
    \A list \in {dbMessages, tempMessages} :
        \A i, j \in 1..Len(list) :
            list[i].featured /\ list[j].featured => i = j

(* C3: after set-featured for A and then set-featured for B, both answered
   with the success redirect, the store that holds A and B has exactly one
   featured message, and it is B *)
C3_FeaturedAThenB ==
    LET A == resp.follows.id
        B == resp.id
    IN  ( /\ resp.route = "/featured" /\ resp.status = 302
          /\ resp.follows.route = "/featured" /\ resp.follows.status = 302
          /\ A # B )
        => \A list \in {dbMessages, tempMessages} :
              Has(list, A) /\ Has(list, B)
              => /\ Cardinality(FeaturedAt(list)) = 1
                 /\ \A i \in FeaturedAt(list) : list[i]._id = B

(* two documents of the durable collection featured one after the other *)
C3_Witness ==
    /\ resp.route = "/featured" /\ resp.status = 302
    /\ resp.follows.route = "/featured" /\ resp.follows.status = 302
    /\ resp.follows.id # resp.id
    /\ Has(dbMessages, resp.follows.id) /\ Has(dbMessages, resp.id)

IsDateDesc(s) == \A i, j \in 1..Len(s) : i < j => s[i].date >= s[j].date

(* C5: the homepage shows at most 3 messages, the ones with the latest
   dates of the store it read, newest first *)
C5_HomeLatestThree ==
    resp.route = "/" =>
        LET store == IF resp.usingMongoDB THEN dbMessages ELSE tempMessages
            shown == resp.messages
        IN  /\ Len(shown) = Min(HomeLimit, Len(store))
            /\ Range(shown) \subseteq Range(store)
            /\ IsDateDesc(shown)
            /\ \A m \in Range(store) \ Range(shown) :
                  \A n \in Range(shown) : m.date <= n.date

IsFeaturedFirstDateDesc(s) ==
    \A i, j \in 1..Len(s) :
        i < j => /\ s[j].featured => s[i].featured
                 /\ s[i].featured = s[j].featured => s[i].date >= s[j].date

----------------------------------------------------------------------------
(* Properties of the events *)

EventRoutes ==
    {"/upload-event", "/admin-events", "/events-data", "/update-event", "/delete-event"}

(* C4: while the durable backend is unavailable no event request ends in
   an error, and an upload-event that passes the field check is answered
   with the success redirect *)
C4_EventsServedFromFallback ==
    [][ (~connected /\ resp' # resp /\ resp'.route \in EventRoutes)
        => /\ resp'.status # 500
           /\ resp'.route = "/upload-event" => resp'.status \in {302, 400} ]_vars

LocalDay(t) == (t + tz) \div DayMs

(* C9: the status on the homepage is upcoming before the start; ongoing
   from the start to the endDate, or without an endDate to the end of the
   local day of the start; and completed after that *)
C9_StatusByDates ==
    resp.route = "/" =>
        \A e \in Range(resp.events) :
            /\ e.status \in {"upcoming", "ongoing", "completed"}
            /\ e.status = "upcoming" <=> resp.at < e.date
            /\ e.status = "ongoing" <=>
                  IF e.endDate # None
                  THEN e.date <= resp.at /\ resp.at <= e.endDate[1]
                  ELSE e.date <= resp.at /\ LocalDay(resp.at) = LocalDay(e.date)

(* one homepage shows a single-day event that is over and a multi-day
   event that is going on, on a server that does not run on UTC *)
C9_Witness ==
    /\ resp.route = "/"
    /\ tz # 0
    /\ \E e1, e2 \in Range(resp.events) :
          /\ e1.endDate = None /\ e1.status = "completed"
          /\ e2.endDate # None /\ e2.status = "ongoing"

(* C10: the event of 2024-01-10 without endDate is ongoing at 12:00:00 of
   that day, completed at 00:00:01 of the next day and upcoming at 23:59:59
   of the day before, whatever the server's offset *)
C10_ExampleStatuses ==
    resp.route = "/" =>
        \A e \in Range(resp.events) :
            (e.date = Jan(10, 0, 0, 0) /\ e.endDate = None)
            => /\ resp.at + tz = Jan(10, 12, 0, 0) => e.status = "ongoing"
               /\ resp.at + tz = Jan(11, 0, 0, 1) => e.status = "completed"
               /\ resp.at + tz = Jan(9, 23, 59, 59) => e.status = "upcoming"

----------------------------------------------------------------------------
(* Properties of the announcements *)

PublicListings == {"/active-announcements", "/"}

(* the store the backend of the last response holds *)
StoreOf(r) == IF r.usingMongoDB THEN dbAnnouncements ELSE tempAnnouncements

(* active, and expiresAt unset or later than t *)
VisibleAt(x, t) == x.active /\ (x.expiresAt = None \/ x.expiresAt[1] > t)

(* a comes before b: featured before non-featured, then the higher
   priority, then the later creation *)
Before(a, b) ==
    \/ a.featured /\ ~b.featured
    \/ a.featured = b.featured /\ a.priority > b.priority
    \/ a.featured = b.featured /\ a.priority = b.priority /\ a.createdAt > b.createdAt

(* C7: a public listing of the announcements has at most 3 entries, none
   of them inactive and none of them expired at the time of the request *)
C7_PublicListingVisible ==
    resp.route \in PublicListings =>
        /\ Len(resp.announcements) <= 3
        /\ \A x \in Range(resp.announcements) :
              /\ x.active
              /\ x.expiresAt # None => x.expiresAt[1] > resp.at

(* a listing of 3 out of a store of more than 3, one of them expired at
   the time of the request *)
C7_Witness ==
    /\ resp.route = "/active-announcements"
    /\ Len(resp.announcements) = 3
    /\ Len(StoreOf(resp)) > 3
    /\ \E x \in Range(StoreOf(resp)) :
          x.active /\ x.expiresAt # None /\ x.expiresAt[1] <= resp.at

(* the listing is the first three visible announcements of the store in
   the order Before *)
ListingIsFirstThree ==
    LET visible == SelectSeq(StoreOf(resp), LAMBDA x : VisibleAt(x, resp.at))
        listing == resp.announcements
    IN  /\ Len(listing) = Min(3, Len(visible))
        /\ Range(listing) \subseteq Range(visible)
        /\ \A i, j \in 1..Len(listing) : i < j => ~Before(listing[j], listing[i])
        /\ \A x \in Range(visible) \ Range(listing) :
              \A y \in Range(listing) : ~Before(x, y)

(* C8: a public listing of the announcements is the first three visible
   announcements, featured first, then by priority, then the latest
   created first; no visible announcement left out comes before a listed
   one *)
C8_ListingFirstThreeInOrder ==
    resp.route \in PublicListings => ListingIsFirstThree

(* the same for GET /active-announcements alone *)
ActiveAnnouncementsFirstThree ==
    resp.route = "/active-announcements" => ListingIsFirstThree

(* four visible announcements of different rank, three of them listed *)
ActiveAnnouncementsTruncated ==
    /\ resp.route = "/active-announcements"
    /\ Len(resp.announcements) = 3
    /\ \E x \in Range(StoreOf(resp)) \ Range(resp.announcements) :
          /\ VisibleAt(x, resp.at)
          /\ \A y \in Range(resp.announcements) : Before(y, x)

----------------------------------------------------------------------------
(* Properties of delete and update *)

(* C11: a delete request for a message that the backend in use does not
   hold, so that it removes nothing, is answered with NotFound (404); this
   covers the second of two deletes of the same message *)
C11_DeleteReportsNotFound ==
    [][ ( /\ resp'.route = "/delete"
          /\ handled' = handled + 1
          /\ dbMessages' = dbMessages
          /\ tempMessages' = tempMessages )
        => resp'.status = 404 ]_vars

(* the backend that serves a request for id holds nothing under it: no
   store has the id, or the server is not connected and the fallback list
   has not *)
Absent(id, db, temp) ==
    \/ ~Has(db, id) /\ ~Has(temp, id)
    \/ ~connected /\ ~Has(temp, id)

Stores == <<dbMessages, tempMessages, dbEvents, dbAnnouncements, tempAnnouncements>>

(* C12: an update with valid fields, of a message or of an announcement,
   for an id the backend in use does not hold is answered 404 and changes
   no stored entity *)
C12_UpdateReportsNotFound ==
    [][ /\ ( /\ resp'.route = "/update" /\ resp'.status # 400
             /\ handled' = handled + 1
             /\ Absent(resp'.id, dbMessages, tempMessages) )
           => resp'.status = 404 /\ UNCHANGED Stores
        /\ ( /\ resp'.route = "/update-announcement" /\ resp'.status # 400
             /\ handled' = handled + 1
             /\ Absent(resp'.id, dbAnnouncements, tempAnnouncements) )
           => resp'.status = 404 /\ UNCHANGED Stores ]_vars

(* an announcement update answered 404 while both announcement stores hold
   announcements *)
C12_Witness ==
    /\ resp.route = "/update-announcement" /\ resp.status = 404
    /\ dbAnnouncements # <<>> /\ tempAnnouncements # <<>>

----------------------------------------------------------------------------
(* Properties of create *)

CreateRoutes == {"/upload", "/upload-event", "/create-announcement"}

(* the fields the create form of a route must hold *)
MustHold(route) ==
    CASE route = "/upload" -> {"title", "code", "date", "author", "description"}
      [] route = "/upload-event" -> {"title", "date", "venue", "description"}
      [] route = "/create-announcement" -> {"title", "content"}

(* C13: a create request with a required field missing or empty is
   answered 400, connected or not, and changes neither the durable
   collections nor the fallback lists *)
C13_CreateValidates ==
    [][ ( /\ resp'.route \in CreateRoutes
          /\ handled' = handled + 1
          /\ \E f \in MustHold(resp'.route) : f \notin resp'.form[1].fields )
        => resp'.status = 400 /\ UNCHANGED Stores ]_vars

(* an event form without venue refused while the server is connected and
   a message is stored *)
C13_Witness ==
    /\ resp.route = "/upload-event" /\ resp.status = 400
    /\ resp.form[1].fields = {"title", "date", "description"} /\ resp.form[1].file
    /\ connected
    /\ dbMessages # <<>>

----------------------------------------------------------------------------
(* Properties of the message round trip and of attachments *)

(* GET /edit/:id asked right after a successful upload, for the id the
   upload assigned *)
EditAfterUpload ==
    /\ resp.route = "/edit"
    /\ resp.follows.route = "/upload" /\ resp.follows.status = 302
    /\ resp.id = resp.follows.id

(* C14: the message found by id after a successful upload has the title,
   code, author and description of the form, the date the form's date
   field denotes, the assigned id and featured = false *)
C14_UploadThenEdit ==
    EditAfterUpload /\ resp.status = 200
    => LET message == resp.message[1]
           input == resp.follows.form[1]
       IN  /\ message._id = resp.id
           /\ TextOf(message.text) = TextOf(input.text)
           /\ message.date = NewDate(input.date) /\ message.date # InvalidDate
           /\ ~message.featured

(* no two entities of the list have the same id *)
UniqueIds(list) == \A i, j \in 1..Len(list) : i # j => list[i]._id # list[j]._id

(* C15: in every store the ids of the entities are pairwise different,
   the fallback lists with their ids taken from the clock included *)
C15_IdsUnique ==
    /\ UniqueIds(dbMessages) /\ UniqueIds(tempMessages)
    /\ UniqueIds(dbEvents)
    /\ UniqueIds(dbAnnouncements) /\ UniqueIds(tempAnnouncements)

(* the list that holds the message of an id: ids of the durable backend
   are ObjectIds, ids of the fallback list are not *)
HolderOf(id) == IF IsObjectId(id) THEN dbMessages ELSE tempMessages

(* the last request was a successful POST /update/:id with removeFile on *)
Removed(r) == r.route = "/update" /\ r.status = 302 /\ r.form[1].removeFile

(* C16: after a successful update with the remove-file flag, with or
   without a new file, the message has no pdfFile and no filePath, and
   GET /pdf/:id asked next for it answers 404 *)
C16_RemoveFileClears ==
    /\ Removed(resp)
       => LET message == find(HolderOf(resp.id), resp.id)
          IN  message # None /\ message[1].pdfFile = None /\ message[1].filePath = ""
    /\ resp.route = "/pdf" /\ Removed(resp.follows) /\ resp.id = resp.follows.id
       => resp.status = 404

(* the stored PDF of a durable message is removed by an update that also
   carries a new file, and the PDF asked for next is not there *)
C16_Witness ==
    /\ resp.route = "/pdf" /\ resp.status = 404
    /\ Removed(resp.follows) /\ resp.follows.form[1].file # None
    /\ resp.id = resp.follows.id /\ resp.id = <<"oid", 1>>
    /\ connected

(* the message is there before and after, with the same pdfFile and the
   same filePath *)
SameAttachment(before, after) ==
    /\ before # None /\ after # None
    /\ after[1].pdfFile = before[1].pdfFile
    /\ after[1].filePath = before[1].filePath

(* C17: a successful POST /update/:id without a new file and without
   removeFile leaves pdfFile and filePath of the message as they were *)
C17_UpdateKeepsAttachment ==
    [][ ( /\ resp'.route = "/update" /\ resp'.status = 302
          /\ handled' = handled + 1
          /\ ~resp'.form[1].removeFile /\ resp'.form[1].file = None )
        => LET id == resp'.id
           IN  IF IsObjectId(id)
               THEN SameAttachment(find(dbMessages, id), find(dbMessages', id))
               ELSE SameAttachment(find(tempMessages, id), find(tempMessages', id)) ]_vars

----------------------------------------------------------------------------
(* Properties of search *)

(* two characters that are the same up to the case of a letter *)
CasePairs ==
    UNION { { <<UpperCase[k], LowerCase[k]>>, <<LowerCase[k], UpperCase[k]>> } :
            k \in 1..Len(UpperCase) }

SameLetter(a, b) == a = b \/ <<a, b>> \in CasePairs

(* the query without the blanks before and after it *)
Trimmed(q) ==
    CHOOSE t \in {SubSeq(q, i, j) : i, j \in 1..Len(q)} :
       \E i \in 1..Len(q) : \E j \in i..Len(q) :
          /\ t = SubSeq(q, i, j)
          /\ q[i] # " " /\ q[j] # " "
          /\ \A k \in 1..Len(q) : (k < i \/ k > j) => q[k] = " "

(* the term occurs in the text, the case of letters set aside *)
Occurs(term, text) ==
    \E i \in 0..(Len(text) - Len(term)) :
       \A k \in 1..Len(term) : SameLetter(term[k], text[i + k])

NonBlank(q) == \E i \in 1..Len(q) : q[i] # " "

(* C18: a search with a query that is not blank, served from the fallback
   list, shows exactly the messages of the list that have the trimmed
   query, case set aside, in title, description, author or code, in the
   order of the list; with no such message it shows none, and it answers
   200 *)
C18_SearchFallback ==
    resp.route = "/search" /\ NonBlank(resp.form[1].q) /\ ~resp.usingMongoDB
    => LET term == Trimmed(resp.form[1].q)
           Matches(m) ==
               \/ Occurs(term, TextOf(m.text).title)
               \/ Occurs(term, TextOf(m.text).description)
               \/ Occurs(term, TextOf(m.text).author)
               \/ Occurs(term, TextOf(m.text).code)
       IN  resp.status = 200 /\ resp.messages = SelectSeq(tempMessages, Matches)

(* " Faith " finds an uploaded message titled FAITH WORKS and the seed
   message The Power of Faith, with the durable call failing *)
C18_Witness ==
    /\ resp.route = "/search" /\ ~resp.usingMongoDB /\ connected
    /\ resp.form[1].q = << " ", "F", "a", "i", "t", "h", " " >>
    /\ Len(resp.messages) = 2
    /\ resp.messages[1].text = "faith" /\ resp.messages[2].text = "seed1"

----------------------------------------------------------------------------
(* Properties of the derived status *)

(* C19: every event of a GET /events-data answer has a status field, and
   it is calculateEventStatus of the event at the time of the request *)
C19_EventsDataStatus ==
    resp.route = "/events-data" /\ resp.status = 200
    => \A i \in 1..Len(resp.events) :
          LET e == resp.events[i]
          IN  /\ "status" \in DOMAIN e
              /\ e.status = calculateEventStatus(e, resp.at, tz)

(* C20: no stored event has a status field; the status an event has on
   the homepage is computed from the stored event and the time of that
   request *)
C20_StatusNotStored ==
    /\ \A i \in 1..Len(dbEvents) : "status" \notin DOMAIN dbEvents[i]
    /\ resp.route = "/"
       => \A i \in 1..Len(resp.events) :
             LET stored == find(dbEvents, resp.events[i]._id)
             IN  /\ stored # None
                 /\ resp.events[i].status = calculateEventStatus(stored[1], resp.at, tz)

(* an event that was still to come when it was uploaded is shown as
   completed on a later homepage, and is stored as it was uploaded *)
C20_Witness ==
    /\ resp.route = "/" /\ resp.events # <<>>
    /\ resp.events[1].date > StartMs
    /\ resp.events[1].status = "completed"
    /\ dbEvents # <<>>
    /\ DOMAIN dbEvents[1] = {"_id", "date", "endDate", "featured", "active"}

----------------------------------------------------------------------------
(* Properties of the third group of claims *)

(* C21: every stored announcement, durable or fallback, has a priority
   from 1 to 5, whatever the forms of create and update held *)
C21_PriorityInRange ==
    \A x \in Range(dbAnnouncements) \cup Range(tempAnnouncements) : x.priority \in 1..5

(* C22: an upload-event request with title, date, venue and description
   filled, handled by a connected server whose durable call does not
   fail, is answered with the redirect and stores the event, with or
   without an image file *)
C22_ImageOptional ==
    [][ ( /\ resp'.route = "/upload-event"
          /\ handled' = handled + 1
          /\ {"title", "date", "venue", "description"} \subseteq resp'.form[1].fields
          /\ connected
          /\ resp'.status # 500 )
        => /\ resp'.status = 302
           /\ Len(dbEvents') = Len(dbEvents) + 1 ]_vars

(* C23: every request gets a response: a slot that holds a request is
   idle again later *)
C23_EveryRequestAnswered ==
    \A s \in Slots : (featReq[s].pc # "idle") ~> (featReq[s].pc = "idle")

(* C24: the write of an update that carries no file and no remove flag
   leaves pdfFile and filePath of the message as they are at the time of
   the write, also when another update of the message wrote a new file
   after this one re-read the message *)
C24_NoLostAttachment ==
    [][ \A s \in Slots :
          ( /\ featReq[s].pc = "update:findByIdAndUpdate"
            /\ featReq[s].file = None
            /\ featReq'[s].pc = "idle"
            /\ resp'.status = 302 )
          => LET id == featReq[s].id
             IN  IF IsObjectId(id)
                 THEN SameAttachment(find(dbMessages, id), find(dbMessages', id))
                 ELSE SameAttachment(find(tempMessages, id), find(tempMessages', id)) ]_vars

(* an event whose endDate is strictly before its date *)
EndsBeforeStart(e) == e.endDate # None /\ e.endDate[1] < e.date

(* C25 as stated: an event whose endDate is strictly before its date is
   stored by create and update as sent, and the status the homepage computes
   for it is completed at every current time *)
C25_CompletedImmediately ==
    resp.route = "/" =>
        \A e \in Range(resp.events) : EndsBeforeStart(e) => e.status = "completed"

(* C25 amended: an event whose endDate is strictly before its date is stored
   by create and update as sent; the status the homepage computes for it is
   never ongoing: it is upcoming while the current time is before its date
   and completed at every current time from its date on *)
C25_NeverOngoing ==
    resp.route = "/" =>
        \A e \in Range(resp.events) :
            EndsBeforeStart(e)
            => /\ e.status # "ongoing"
               /\ e.status = "upcoming" <=> resp.at < e.date
               /\ e.status = "completed" <=> resp.at >= e.date

(* a homepage rendered at the very instant such an event starts shows it as
   completed *)
C25_Witness ==
    /\ resp.route = "/"
    /\ \E e \in Range(resp.events) :
          EndsBeforeStart(e) /\ resp.at = e.date /\ e.status = "completed"

(* the featured flag of every stored message, durable and fallback *)
FeaturedFlags(db, temp) ==
    <<[i \in 1..Len(db) |-> db[i].featured], [i \in 1..Len(temp) |-> temp[i].featured]>>

(* C26: a set-featured request answered with 404 because the target id does
   not exist leaves the featured flag of every stored message as it was
   before the request *)
C26_NotFoundKeepsFeatured ==
    [][ (resp'.route = "/featured" /\ resp'.status = 404 /\ handled' = handled + 1)
        => FeaturedFlags(dbMessages', tempMessages') = FeaturedFlags(dbMessages, tempMessages) ]_vars

(* C27: no request made with a session that is not authenticated changes a
   stored message, event or announcement, durable or fallback *)
C27_WritesBehindAuth ==
    [][ (requireAuth(FALSE, Protected) \/ Public) => UNCHANGED Stores ]_vars

(* C28: no single request modifies both the durable store and the fallback
   list, of messages or of announcements *)
C28_OneStorePerRequest ==
    [][ handled' = handled + 1
        => /\ ~(dbMessages' # dbMessages /\ tempMessages' # tempMessages)
           /\ ~(dbAnnouncements' # dbAnnouncements /\ tempAnnouncements' # tempAnnouncements) ]_vars

(* the ids of the stored messages that an upload stored: the durable ones
   and the fallback ones with an id made from the clock *)
UploadedIds(db, temp) ==
    {m._id : m \in Range(db)} \cup {m._id : m \in {x \in Range(temp) : x._id[1] = "t"}}

(* C29: every message whose upload was answered with the success redirect
   and that has not been deleted is contained in every later /messages
   listing, whatever the backend's availability at the upload and at the
   listing *)
C29_UploadedIsListed ==
    [][ (\E fail \in BOOLEAN : Messages(fail))
        => \A id \in UploadedIds(dbMessages, tempMessages) :
              \E i \in 1..Len(resp'.messages) : resp'.messages[i]._id = id ]_vars

(* the sequence GET /active-announcements returns in the current state when
   its durable query rejects (fail) or not *)
ActiveListing(fail) ==
    IF connected /\ ~fail THEN ActiveAnnouncementsDb ELSE ActiveAnnouncementsTemp

(* C30: for the same stores, the same current time and the same backend
   availability, the announcements rendered on the homepage are the
   sequence GET /active-announcements returns, also while the fallback list
   is in use *)
C30_HomeSameAsActive ==
    [][ \A fail \in BOOLEAN :
           Home(fail) => resp'.announcements = ActiveListing(fail) ]_vars

====
